---- MODULE Spec2Model ----
(***************************************************************************)
(* Model of the energy-sector ranking and price-enrichment scripts.        *)
(*                                                                         *)
(*   get_top_energy_stocks  (energy_stock_price_analysis.py and the        *)
(*                           identical copy in finance_data_transform.py)  *)
(*   the PHASE 2 enrichment loop (energy_stock_price_analysis.py)          *)
(*                                                                         *)
(* A DataFrame is a sequence of rows in index order; a row's index label   *)
(* (the ticker) is its field id.  An exchange string is a sequence of      *)
(* one-character strings so that str.upper() and the substring test are    *)
(* computed character by character.  rank_score is kept as an exact        *)
(* rational [num, den].                                                    *)
(***************************************************************************)
EXTENDS Integers, Sequences, FiniteSets, TLC

\* ---------------------------------------------------------------- bounds
MaxRows == 3          \* rows of the table in the ranking study
MaxTopN == 2          \* top_n ranges over 1..MaxTopN and the default
MaxBonusRows == 2     \* rows of the table in the bonus study
MaxTickers == 3       \* rows of the table in the pipeline study

\* ------------------------------------------------------------- constants
DefaultTopN == 15
CapWeight == 50
UsdBonus == 30
EurGbpBonus == 20
MajorExchangeBonus == 20

NaN == "NaN"
Absent == "absent"

DefaultCurrencies == <<"USD", "EUR", "GBP">>

\* ------------------------------------------------------- string helpers
Lower26 == <<"a","b","c","d","e","f","g","h","i","j","k","l","m",
             "n","o","p","q","r","s","t","u","v","w","x","y","z">>
Upper26 == <<"A","B","C","D","E","F","G","H","I","J","K","L","M",
             "N","O","P","Q","R","S","T","U","V","W","X","Y","Z">>

\* lower-case letter -> upper-case letter
UpperTable ==
    [c \in {Lower26[i] : i \in 1..26} |-> Upper26[CHOOSE i \in 1..26 : Lower26[i] = c]]

\* str.upper() on one character
UpperChar(c) == IF c \in DOMAIN UpperTable THEN UpperTable[c] ELSE c

\* str.upper()
RECURSIVE Upper(_)
Upper(s) == IF s = <<>> THEN <<>> ELSE <<UpperChar(s[1])>> \o Upper(Tail(s))

\* the Python test  tok in s  on strings
Contains(tok, s) ==
    \E i \in 1..(Len(s) - Len(tok) + 1) : SubSeq(s, i, i + Len(tok) - 1) = tok

\* a missing exchange (float nan) and the exchange of a table without the
\* column, as one-element sequences so that they compare with strings
ExchangeNaN == <<NaN>>
ExchangeAbsent == <<Absent>>

\* str(x): the float nan prints as "nan"
Str(x) == IF x = ExchangeNaN THEN <<"n","a","n">> ELSE x

major_exchanges ==
    << <<"N","A","S","D","A","Q">>,
       <<"N","Y","S","E">>,
       <<"X","E","T","R","A">>,
       <<"N","Y","Q">>,
       <<"X","E","T","R">>,
       <<"L","O","N">>,
       <<"E","u","r","o","n","e","x","t">> >>

\* ------------------------------------------------------ generic helpers
Range(f) == {f[i] : i \in DOMAIN f}

InList(x, list) == \E i \in 1..Len(list) : list[i] = x

\* ------------------------------------------------------------- scoring
\* cap_scores dict; .map() gives NaN for an unknown tier, .fillna(0) gives 0
cap_scores(tier) ==
    CASE tier = "Micro Cap" -> 1
      [] tier = "Small Cap" -> 2
      [] tier = "Mid Cap"   -> 3
      [] tier = "Large Cap" -> 4
      [] tier = "Mega Cap"  -> 5
      [] OTHER              -> 0

\* ---- rank_score values are rationals [num, den], den > 0
Rat(n, d) == [num |-> n, den |-> d]
RatAdd(a, k) == Rat(a.num + k * a.den, a.den)          \* a + integer k
RatGeq(a, b) == a.num * b.den >= b.num * a.den
RatEq(a, b) == a.num * b.den = b.num * a.den

\* mutant: rank() without pct=True
RankPctTimes50Mutant(pop, v) ==
    LET less == Cardinality({j \in 1..Len(pop) : cap_scores(pop[j].market_cap) < v})
        eq   == Cardinality({j \in 1..Len(pop) : cap_scores(pop[j].market_cap) = v})
    IN  Rat((CapWeight \div 2) * (2 * less + eq + 1), 1)

\* Series.rank(pct=True) * 50 for the ordinal v within the ordinals of pop:
\* average rank of v = #smaller + (#equal + 1) / 2, pct = rank / Len(pop)
RankPctTimes50(pop, v) ==
    LET less == Cardinality({j \in 1..Len(pop) : cap_scores(pop[j].market_cap) < v})
        eq   == Cardinality({j \in 1..Len(pop) : cap_scores(pop[j].market_cap) = v})
    IN  Rat((CapWeight \div 2) * (2 * less + eq + 1), Len(pop))

\* mutant: every listed currency gets the top bonus
currency_bonus_fnMutant(x) ==
    IF x \in {"USD", "EUR", "GBP"} THEN UsdBonus ELSE 0

\* lambda x: 30 if x == 'USD' else (20 if x in ['EUR', 'GBP'] else 0)
currency_bonus_fn(x) ==
    IF x = "USD" THEN UsdBonus
    ELSE IF x \in {"EUR", "GBP"} THEN EurGbpBonus
    ELSE 0

\* lambda x: 20 if any(ex in str(x).upper() for ex in major_exchanges) else 0
exchange_bonus_fn(x) ==
    LET u == Upper(Str(x))
    IN  IF \E k \in 1..Len(major_exchanges) : Contains(major_exchanges[k], u)
        THEN MajorExchangeBonus
        ELSE 0

\* results after the market-cap filter (lines 28-32)
FilterMarketCap(rows, cols) ==
    IF "market_cap" \in cols
    THEN LET Keep(r) == r.market_cap # NaN IN SelectSeq(rows, Keep)
    ELSE rows

\* mutant: the currency filter keeps every row
FilterCurrencyMutant(rows, cols, preferred) == rows

\* results after the currency filter (lines 35-37)
FilterCurrency(rows, cols, preferred) ==
    IF "currency" \in cols
    THEN LET Keep(r) == InList(r.currency, preferred) IN SelectSeq(rows, Keep)
    ELSE rows

\* mutant: the percentile is taken before the currency filter
RankPopulationMutant(afterCap, afterCurrency) == afterCap

\* the frame whose market_cap_score column is ranked: rank() runs at
\* line 44, on results as left by both filters
RankPopulation(afterCap, afterCurrency) == afterCurrency

\* Series.apply(f) on one column: the values of f in row order
RECURSIVE CurrencyBonusSeries(_)
CurrencyBonusSeries(rows) ==
    IF rows = <<>> THEN <<>>
    ELSE <<currency_bonus_fn(rows[1].currency)>> \o CurrencyBonusSeries(Tail(rows))

RECURSIVE ExchangeBonusSeries(_)
ExchangeBonusSeries(rows) ==
    IF rows = <<>> THEN <<>>
    ELSE <<exchange_bonus_fn(rows[1].exchange)>> \o ExchangeBonusSeries(Tail(rows))

\* rank_score of one surviving row (lines 41-57), given its two bonuses
RankScore(row, pop, cols, curBonus, exBonus) ==
    LET s0 == Rat(0, 1)
        s1 == IF "market_cap" \in cols
              THEN RankPctTimes50(pop, cap_scores(row.market_cap))
              ELSE s0
        s2 == IF "currency" \in cols THEN RatAdd(s1, curBonus) ELSE s1
    IN  IF "exchange" \in cols THEN RatAdd(s2, exBonus) ELSE s2

\* results with its rank_score column, from row i on (input order)
RECURSIVE ScoreRows(_, _, _, _, _, _)
ScoreRows(surv, pop, cols, curSeries, exSeries, i) ==
    IF i > Len(surv) THEN <<>>
    ELSE << [id |-> surv[i].id, name |-> surv[i].name,
             market_cap |-> surv[i].market_cap, currency |-> surv[i].currency,
             exchange |-> surv[i].exchange,
             rank_score |-> RankScore(surv[i], pop, cols, curSeries[i], exSeries[i])] >>
         \o ScoreRows(surv, pop, cols, curSeries, exSeries, i + 1)

\* a Series as a mapping from index label (ticker) to value
ByTicker(rows, series) ==
    [t \in {rows[i].id : i \in DOMAIN rows} |->
        series[CHOOSE i \in DOMAIN rows : rows[i].id = t]]

\* seq without its i-th element
RemoveAt(seq, i) == SubSeq(seq, 1, i - 1) \o SubSeq(seq, i + 1, Len(seq))

\* mutant: the frame is left in input order
SortOutcomesMutant(scored) == {scored}

\* sort_values('rank_score', ascending=False) with the default
\* kind='quicksort': numpy's quicksort is not stable, so every ordering that
\* is non-increasing in rank_score is a possible result (any row of maximal
\* score may come first, then any ordering of the rest)
RECURSIVE SortOutcomes(_)
SortOutcomes(scored) ==
    IF scored = <<>> THEN {<<>>}
    ELSE UNION { { <<scored[i]>> \o rest : rest \in SortOutcomes(RemoveAt(scored, i)) } :
                 i \in { k \in DOMAIN scored :
                           \A j \in DOMAIN scored :
                              RatGeq(scored[k].rank_score, scored[j].rank_score) } }

\* mutant: no truncation
headMutant(rows, n) == rows

\* DataFrame.head(n) for n >= 0
head(rows, n) == SubSeq(rows, 1, IF n < Len(rows) THEN n ELSE Len(rows))

\* ------------------------------------------------- number formatting
\* f"{x:.2f}" of a value given in hundredths
Fmt2(c) ==
    LET a == IF c < 0 THEN 0 - c ELSE c
        body == ToString(a \div 100) \o "." \o ToString((a % 100) \div 10) \o ToString(a % 10)
    IN  IF c < 0 THEN "-" \o body ELSE body

Pad3(k) == IF k < 10 THEN "00" \o ToString(k)
           ELSE IF k < 100 THEN "0" \o ToString(k) ELSE ToString(k)

\* f"{n:,}" of a non-negative integer
RECURSIVE Commas(_)
Commas(n) == IF n < 1000 THEN ToString(n)
             ELSE Commas(n \div 1000) \o "," \o Pad3(n % 1000)

\* a / b rounded to the nearest integer (b > 0)
RoundDiv(a, b) == (2 * a + b) \div (2 * b)

RECURSIVE SeqSum(_)
SeqSum(s) == IF s = <<>> THEN 0 ELSE s[1] + SeqSum(Tail(s))

SeqMax(s) == CHOOSE x \in Range(s) : \A y \in Range(s) : y <= x
SeqMin(s) == CHOOSE x \in Range(s) : \A y \in Range(s) : x <= y

\* Python values of an info dict: a float, or a str
Float(x) == [kind |-> "float", v |-> x]
StrVal(x) == [kind |-> "str", v |-> x]

\* mutant: a missing key reads as the number 0
DictGetMutant(d, key, default) == IF key \in d.keys THEN d.val[key] ELSE Float(0)

\* dict.get(key, default)
DictGet(d, key, default) == IF key \in d.keys THEN d.val[key] ELSE default

\* ---------------------------------------------------------------- state
VARIABLES
    pc,                    \* "rank", "enrich" (PHASE 2 loop) or "done"
    df,                    \* the universe table, rows in index order
    columns,               \* the optional columns df has
    top_n,                 \* argument of get_top_energy_stocks
    preferred_currencies,  \* argument of get_top_energy_stocks
    results,               \* local: the scored survivors after sort_values
    currency_bonus,        \* local: ticker -> currency bonus
    exchange_bonus,        \* local: ticker -> exchange bonus
    top_results,           \* the returned frame (top_energy_stocks)
    market,                \* the market-data source: ticker -> response
    idx,                   \* loop position in top_energy_stocks.index
    price_data_list,       \* report rows
    failed_tickers         \* tickers recorded as failed

vars == <<pc, df, columns, top_n, preferred_currencies, results,
          currency_bonus, exchange_bonus, top_results, market, idx,
          price_data_list, failed_tickers>>

\* ------------------------------------------------------- input samples
OptionalColumns == {"market_cap", "currency", "exchange"}

NYQ == <<"N","Y","Q">>
TSE == <<"T","S","E">>

CapSamples == {NaN, "Small Cap", "Mega Cap"}
CurrencySamples == {"USD", "EUR"}
ExchangeSamples == {NYQ, TSE}
PreferredSamples == { DefaultCurrencies, <<"EUR", "USD">>, <<"EUR">> }

\* samples of the bonus study
BonusCapSamples == {"Mega Cap"}
BonusCurrencySamples == {"USD", "EUR", "JPY"}
BonusExchangeSamples ==
    { <<"N","Y","S","E">>, <<"n","y","s","e">>, <<"N","a","s","d","a","q">>,
      <<"X","E","T","R","A">>, <<"x","e","t","r">>, NYQ,
      <<"L","o","n">>, <<"E","u","r","o","n","e","x","t">>,
      <<"E","U","R","O","N","E","X","T">>, TSE, ExchangeNaN }
BonusPreferredSamples == { DefaultCurrencies, <<"EUR", "USD">>, <<"JPY", "EUR">> }

NameOf(i) == <<"Company", i>>

\* all tables of n rows whose optional columns are cols
Tables(n, cols, caps, currencies, exchanges) ==
    LET Kinds == [market_cap : IF "market_cap" \in cols THEN caps ELSE {Absent},
                  currency   : IF "currency" \in cols THEN currencies ELSE {Absent},
                  exchange   : IF "exchange" \in cols THEN exchanges ELSE {ExchangeAbsent}]
    IN  { [i \in 1..n |->
             [id |-> i, name |-> NameOf(i), market_cap |-> k[i].market_cap,
              currency |-> k[i].currency, exchange |-> k[i].exchange]] :
          k \in [1..n -> Kinds] }

\* ---- the market-data source
\* yf.download(ticker, period='1y'): closes in cents, daily volumes;
\* raises = the call throws
EmptyHistory == [raises |-> FALSE, closes |-> <<>>, volumes |-> <<>>]
FailedDownload == [raises |-> TRUE, closes |-> <<>>, volumes |-> <<>>]
HistorySamples ==
    { EmptyHistory,
      [raises |-> FALSE, closes |-> <<5000, 10000, 9000>>,
       volumes |-> <<1000, 3000, 2500000>>] }

InfoKeys == {"trailingPE", "dividendYield"}

\* yf.Ticker(ticker).info: a dict that may omit keys (keys = the keys it
\* has); raises = reading .info throws
InfoSamples ==
    { [raises |-> FALSE, keys |-> ks,
       val |-> [k \in InfoKeys |->
                  \* trailingPE 12.34 in hundredths,
                  \* dividendYield 0.0345 in ten-thousandths
                  IF k = "trailingPE" THEN Float(1234) ELSE Float(345)]] :
      ks \in SUBSET InfoKeys }
NoInfo == [raises |-> FALSE, keys |-> {}, val |-> [k \in InfoKeys |-> Float(0)]]
FailedInfo == [raises |-> TRUE, keys |-> {}, val |-> [k \in InfoKeys |-> Float(0)]]

IsEmpty(h) == h.closes = <<>>

\* the request raises; no rows; rows and a dict; rows and .info raises
Responses ==
    { [download |-> FailedDownload, info |-> NoInfo],
      [download |-> EmptyHistory, info |-> NoInfo] }
    \cup { [download |-> h, info |-> i] :
             h \in {x \in HistorySamples : ~IsEmpty(x)},
             i \in InfoSamples \cup {FailedInfo} }

NoMarket == <<>>

\* ---------------------------------------------------------------- Init
InitCommon ==
    /\ pc = "rank"
    /\ results = <<>>
    /\ currency_bonus = <<>>
    /\ exchange_bonus = <<>>
    /\ top_results = <<>>
    /\ idx = 1
    /\ price_data_list = <<>>
    /\ failed_tickers = <<>>

\* get_top_energy_stocks on an arbitrary table and arguments
Init ==
    /\ InitCommon
    /\ columns \in SUBSET OptionalColumns
    /\ \E n \in 0..MaxRows :
          df \in Tables(n, columns, CapSamples, CurrencySamples, ExchangeSamples)
    /\ top_n \in (1..MaxTopN) \cup {DefaultTopN}
    /\ preferred_currencies \in PreferredSamples
    /\ market = NoMarket

\* get_top_energy_stocks on tables that vary currency and exchange strings
InitBonus ==
    /\ InitCommon
    /\ columns = OptionalColumns
    /\ \E n \in 0..MaxBonusRows :
          df \in Tables(n, columns, BonusCapSamples, BonusCurrencySamples,
                        BonusExchangeSamples)
    /\ top_n = DefaultTopN
    /\ preferred_currencies \in BonusPreferredSamples
    /\ market = NoMarket

\* the price-analysis script: get_top_energy_stocks(df, top_n=15), then PHASE 2
InitPipeline ==
    /\ InitCommon
    /\ columns = OptionalColumns
    /\ \E n \in 0..MaxTickers :
          /\ df \in Tables(n, columns, {NaN, "Mega Cap"}, {"USD"}, {NYQ})
          /\ market \in [1..n -> Responses]
    /\ top_n = DefaultTopN
    /\ preferred_currencies = DefaultCurrencies

\* ------------------------------------------------------------- actions
\* get_top_energy_stocks(df, top_n, preferred_currencies)
Rank ==
    /\ pc = "rank"
    /\ LET afterCap == FilterMarketCap(df, columns)
           surv == FilterCurrency(afterCap, columns, preferred_currencies)
           pop == RankPopulation(afterCap, surv)
           curSeries == CurrencyBonusSeries(surv)
           exSeries == ExchangeBonusSeries(surv)
           scored == ScoreRows(surv, pop, columns, curSeries, exSeries, 1)
       IN  /\ results' \in SortOutcomes(scored)
           /\ currency_bonus' =
                 IF "currency" \in columns THEN ByTicker(surv, curSeries) ELSE <<>>
           /\ exchange_bonus' =
                 IF "exchange" \in columns THEN ByTicker(surv, exSeries) ELSE <<>>
    /\ top_results' = head(results', top_n)
    /\ pc' = "enrich"
    /\ UNCHANGED <<df, columns, top_n, preferred_currencies, market, idx,
                   price_data_list, failed_tickers>>

\* one report row (lines 94-136); raises when .info raises
ReportRow(ticker, company, history, info) ==
    LET closes == history.closes
        volumes == history.volumes
        current_price == closes[Len(closes)]
        high_52w == SeqMax(closes)
        low_52w == SeqMin(closes)
        price_1y_ago == closes[1]
        \* percentages in hundredths of a percent
        price_change_1y == RoundDiv((current_price - price_1y_ago) * 10000, price_1y_ago)
        avg_volume == SeqSum(volumes) \div Len(volumes)
        latest_volume == volumes[Len(volumes)]
        distance_from_high == RoundDiv((high_52w - current_price) * 10000, high_52w)
        distance_from_low == RoundDiv((current_price - low_52w) * 10000, low_52w)
        pe_ratio == DictGet(info, "trailingPE", StrVal("N/A"))
        div_yield == DictGet(info, "dividendYield", StrVal("N/A"))
    IN  [Ticker |-> ticker,
         Company |-> company,
         CurrentPrice |-> "$" \o Fmt2(current_price),
         Price1YAgo |-> "$" \o Fmt2(price_1y_ago),
         Change1Y |-> Fmt2(price_change_1y) \o "%",
         High52W |-> "$" \o Fmt2(high_52w),
         Low52W |-> "$" \o Fmt2(low_52w),
         DistanceFromHigh |-> Fmt2(distance_from_high) \o "%",
         DistanceFromLow |-> Fmt2(distance_from_low) \o "%",
         AvgVolume |-> Commas(avg_volume),
         LatestVolume |-> Commas(latest_volume),
         PERatio |-> IF pe_ratio.kind = "str" THEN pe_ratio.v ELSE Fmt2(pe_ratio.v),
         \* div_yield*100 in hundredths is div_yield in ten-thousandths
         DivYield |-> IF div_yield.kind = "str" THEN div_yield.v
                      ELSE Fmt2(div_yield.v) \o "%"]

\* mutant: an exception raised by .info is not treated as a failure
OutcomeMutant(resp) ==
    IF resp.download.raises THEN "failed"
    ELSE IF IsEmpty(resp.download) THEN "failed"
    ELSE "row"

\* what one pass of the loop body does with the source's response:
\* "failed" (empty frame, or an exception caught at line 140) or "row"
Outcome(resp) ==
    IF resp.download.raises THEN "failed"
    ELSE IF IsEmpty(resp.download) THEN "failed"
    ELSE IF resp.info.raises THEN "failed"
    ELSE "row"

\* one iteration of  for idx, ticker in enumerate(top_energy_stocks.index, 1)
Process ==
    /\ pc = "enrich"
    /\ idx <= Len(top_results)
    /\ LET ticker == top_results[idx].id
           resp == market[ticker]
       IN  IF Outcome(resp) = "failed"
           THEN /\ failed_tickers' = Append(failed_tickers, ticker)
                /\ UNCHANGED price_data_list
           ELSE /\ price_data_list' =
                      Append(price_data_list,
                             ReportRow(ticker, top_results[idx].name,
                                       resp.download, resp.info))
                /\ UNCHANGED failed_tickers
    /\ idx' = idx + 1
    /\ UNCHANGED <<pc, df, columns, top_n, preferred_currencies, results,
                   currency_bonus, exchange_bonus, top_results, market>>

\* the loop is exhausted; PHASE 3 only prints
Report ==
    /\ pc = "enrich"
    /\ idx > Len(top_results)
    /\ pc' = "done"
    /\ UNCHANGED <<df, columns, top_n, preferred_currencies, results,
                   currency_bonus, exchange_bonus, top_results, market, idx,
                   price_data_list, failed_tickers>>

\* finance_data_transform.py: the ranking alone
Next == Rank

Spec == Init /\ [][Next]_vars

SpecBonus == InitBonus /\ [][Next]_vars

\* energy_stock_price_analysis.py: ranking, enrichment loop, report
NextPipeline == Rank \/ Process \/ Report

SpecPipeline == InitPipeline /\ [][NextPipeline]_vars

\* ============================================================ properties
\* The filters and the percentile are restated here from df and the
\* arguments alone, so that the formulas below compare what the actions
\* stored with what the table says.

Returned == pc # "rank"

PassesFilters(r) ==
    /\ "market_cap" \in columns => r.market_cap # NaN
    /\ "currency" \in columns => r.currency \in Range(preferred_currencies)

SurvivorIds == {df[i].id : i \in {j \in DOMAIN df : PassesFilters(df[j])}}

RowOf(t) == CHOOSE r \in Range(df) : r.id = t

Ids(rows) == {rows[i].id : i \in DOMAIN rows}

\* position of ticker t in the input table
InputPos(t) == CHOOSE i \in DOMAIN df : df[i].id = t

\* ---- C1
\* C1: no returned row has a missing market-cap tier, and no returned row has
\* a currency outside preferred_currencies (for the columns that are present).
C1_NoExcludedRowReturned ==
    Returned =>
        \A i \in DOMAIN top_results :
            /\ "market_cap" \in columns => top_results[i].market_cap # NaN
            /\ "currency" \in columns =>
                   top_results[i].currency \in Range(preferred_currencies)

C1_Witness ==
    /\ Returned
    /\ columns = OptionalColumns
    /\ top_results # <<>>
    /\ \E r \in Range(df) : r.market_cap = NaN
    /\ \E r \in Range(df) :
          r.market_cap # NaN /\ r.currency \notin Range(preferred_currencies)

\* ---- C2
\* C2: consecutive returned rows are in non-increasing rank_score order, and
\* every survivor left out of the output scores no more than any returned row.
C2_SortedDescending ==
    Returned =>
        /\ \A i \in DOMAIN top_results :
              i + 1 \in DOMAIN top_results =>
                  RatGeq(top_results[i].rank_score, top_results[i + 1].rank_score)
        /\ \A t \in SurvivorIds \ Ids(top_results) :
              /\ t \in Ids(results)
              /\ \A i \in DOMAIN top_results, j \in DOMAIN results :
                    results[j].id = t =>
                        RatGeq(top_results[i].rank_score, results[j].rank_score)

C2_Witness ==
    /\ Returned
    /\ Len(top_results) = 2
    /\ Len(results) = 3
    /\ ~RatEq(top_results[1].rank_score, top_results[2].rank_score)
    /\ ~RatEq(top_results[2].rank_score, results[3].rank_score)
    /\ InputPos(top_results[1].id) > InputPos(results[3].id)

\* ---- C3
\* C3: the sort is stable: survivors with equal rank_score appear in the
\* sorted frame (and so are cut off by top_n) in their input order.
C3_StableSort ==
    Returned =>
        \A i, j \in DOMAIN results :
            (i < j /\ RatEq(results[i].rank_score, results[j].rank_score))
                => InputPos(results[i].id) < InputPos(results[j].id)

\* ---- C4
\* C4: the number of returned rows is at most min(top_n, number of
\* survivors), and a top_n larger than the survivor count returns them all.
C4_LengthBound ==
    Returned =>
        /\ Len(top_results) <= top_n
        /\ Len(top_results) <= Cardinality(SurvivorIds)
        /\ top_n > Cardinality(SurvivorIds) =>
              /\ Ids(top_results) = SurvivorIds
              /\ Len(top_results) = Cardinality(SurvivorIds)

C4_Witness ==
    /\ Returned
    /\ Cardinality(SurvivorIds) > top_n
    /\ Len(top_results) = top_n
    /\ Len(df) > Cardinality(SurvivorIds)

\* ---- C5
\* C5 as claimed: the currency component is 30 for the first element of
\* preferred_currencies, 20 for any other element, 0 otherwise.
C5_FirstPreferredGets30 ==
    Returned =>
        \A t \in DOMAIN currency_bonus :
            currency_bonus[t] =
                IF RowOf(t).currency = preferred_currencies[1] THEN 30
                ELSE IF RowOf(t).currency \in Range(preferred_currencies) THEN 20
                ELSE 0

\* C5 amended: the currency component is 30 for 'USD', 20 for 'EUR' or 'GBP'
\* and 0 for any other currency, whatever the order of preferred_currencies;
\* every survivor has one, and for the default list this is the claimed rule.
C5_FixedCurrencyBonus ==
    Returned =>
        /\ DOMAIN currency_bonus = SurvivorIds
        /\ \A t \in DOMAIN currency_bonus :
              /\ RowOf(t).currency = "USD" => currency_bonus[t] = 30
              /\ RowOf(t).currency \in {"EUR", "GBP"} => currency_bonus[t] = 20
              /\ RowOf(t).currency \notin {"USD", "EUR", "GBP"} => currency_bonus[t] = 0
              /\ preferred_currencies = DefaultCurrencies =>
                    currency_bonus[t] =
                        IF RowOf(t).currency = preferred_currencies[1] THEN 30 ELSE 20

C5_Witness ==
    /\ Returned
    /\ preferred_currencies = <<"JPY", "EUR">>
    /\ \E t, u \in DOMAIN currency_bonus :
          /\ RowOf(t).currency = "JPY" /\ currency_bonus[t] = 0
          /\ RowOf(u).currency = "EUR" /\ currency_bonus[u] = 20

\* ---- C6
ContainsIgnoringCase(tok, s) == Contains(Upper(tok), Upper(s))

\* C6: the exchange component is 20 exactly when the exchange string
\* contains, ignoring letter case, one of the recognized tokens, else 0.
C6_ExchangeTokenBonus ==
    Returned =>
        \A t \in DOMAIN exchange_bonus :
            exchange_bonus[t] =
                IF \E k \in DOMAIN major_exchanges :
                      ContainsIgnoringCase(major_exchanges[k], Str(RowOf(t).exchange))
                THEN 20 ELSE 0

\* ---- C7
\* C7: the rank_score of every returned row lies in [0, 100], whichever
\* optional columns the table has.
C7_ScoreRange ==
    Returned =>
        \A i \in DOMAIN top_results :
            /\ RatGeq(top_results[i].rank_score, Rat(0, 1))
            /\ RatGeq(Rat(100, 1), top_results[i].rank_score)

C7_Witness ==
    /\ Returned
    /\ columns = OptionalColumns
    /\ Len(top_results) >= 2
    /\ RatEq(top_results[1].rank_score, Rat(100, 1))

Processed == {top_results[k].id : k \in 1..(idx - 1)}

RowTickers == {price_data_list[i].Ticker : i \in DOMAIN price_data_list}

\* the fetch for t came back empty, or processing t raised
Faulted(t) ==
    \/ market[t].download.raises
    \/ market[t].download.closes = <<>>
    \/ market[t].info.raises

\* ---- C8
\* C8: a ticker whose fetch is empty or whose processing raises is added to
\* failed_tickers and gets no report row; the loop goes on, and when it ends
\* every ranked ticker is in exactly one of the report rows or failed_tickers.
C8_FaultIsolation ==
    /\ \A t \in Processed :
          Faulted(t) => (t \in Range(failed_tickers) /\ t \notin RowTickers)
    /\ pc = "done" =>
          /\ Processed = Ids(top_results)
          /\ \A t \in Ids(top_results) :
                (t \in RowTickers) # (t \in Range(failed_tickers))
          /\ Len(price_data_list) + Len(failed_tickers) = Len(top_results)

C8_Witness ==
    /\ pc = "done"
    /\ Len(top_results) = 3
    /\ market[top_results[1].id].info.raises
    /\ market[top_results[2].id].download = EmptyHistory
    /\ failed_tickers = <<top_results[1].id, top_results[2].id>>
    /\ RowTickers = {top_results[3].id}

\* ---- C9
\* C9: in the row of a ticker whose fetch succeeded, a fundamentals field
\* the source does not provide reads "N/A"; a missing field neither fails
\* the ticker nor removes its row.
C9_UnavailableFieldIsNA ==
    /\ \A i \in DOMAIN price_data_list :
          LET info == market[price_data_list[i].Ticker].info
          IN  /\ "trailingPE" \notin info.keys => price_data_list[i].PERatio = "N/A"
              /\ "dividendYield" \notin info.keys => price_data_list[i].DivYield = "N/A"
    /\ \A t \in Processed :
          ~Faulted(t) => (t \in RowTickers /\ t \notin Range(failed_tickers))

C9_Witness ==
    \E i \in DOMAIN price_data_list :
        /\ market[price_data_list[i].Ticker].info.keys = {"dividendYield"}
        /\ price_data_list[i].PERatio = "N/A"
        /\ price_data_list[i].DivYield = "3.45%"
        /\ price_data_list[i].DistanceFromHigh = "10.00%"

====
